---- MODULE Spec2Model ----
(***************************************************************************)
(* RangeBoundsMap (src/src/range_bounds_map.rs): an ordered map whose keys *)
(* are non-overlapping ranges over a totally ordered point type.           *)
(*                                                                         *)
(* The map is the sequence `inner` of entries [k |-> range, v |-> value]   *)
(* in the order the B-tree keeps them (ascending start bound).  Every      *)
(* public operation is one action; it records its arguments, its result    *)
(* and the map before the call, so that the contract of the operation is   *)
(* a predicate of one state.                                               *)
(***************************************************************************)
EXTENDS Integers, Sequences, FiniteSets

VARIABLES
    K,        \* the range type the map is instantiated over
    inner,    \* RangeBoundsMap.inner: the entries, in B-tree order
    prev,     \* inner before the last call
    op,       \* the last operation called
    arg,      \* its range argument (a point query p is recorded as [p, p])
    val,      \* its value argument
    result,   \* "Ok", "Overlap", "TryFromBounds", "Panic"
    out       \* what the call returned or yielded

vars == <<K, inner, prev, op, arg, val, result, out>>

(***************************************************************************)
(* Bounds of the model.  Range endpoints are the even numbers 2, 4, ..,    *)
(* 2*MaxNumber and points are all integers around them, as in the tests'   *)
(* NUMBERS and NUMBERS_DOMAIN: there is a point strictly between any two   *)
(* endpoints and on either side of the extreme ones.                       *)
(***************************************************************************)
MaxNumber == 2

NUMBERS == {2 * i : i \in 1..MaxNumber}

NUMBERS_DOMAIN == 1..(2 * MaxNumber + 1)

Values == BOOLEAN

(***************************************************************************)
(* std::ops::Bound<I>                                                      *)
(***************************************************************************)
Included(p) == [t |-> "Included", p |-> p]

Excluded(p) == [t |-> "Excluded", p |-> p]

Unbounded == [t |-> "Unbounded", p |-> 0]

Bounds == {Included(p) : p \in NUMBERS} \cup {Excluded(p) : p \in NUMBERS} \cup {Unbounded}

\* a (Bound, Bound) pair; NiceRange::start / NiceRange::end are .s and .e
Pair(s, e) == [s |-> s, e |-> e]

AllPairs == {Pair(s, e) : s \in Bounds, e \in Bounds}

None == [some |-> FALSE]

Some(x) == [some |-> TRUE, val |-> x]

(***************************************************************************)
(* The endpoint order (DiscreteBoundOrd).  At one point p the order is     *)
(* Excluded-End(p) < Included(p) < Excluded-Start(p); an unbounded start   *)
(* is below and an unbounded end above every other endpoint.               *)
(***************************************************************************)
PosInfinity == 3 * (2 * MaxNumber + 2)

BoundOrdStart(b) ==
    CASE b.t = "Included" -> 3 * b.p
      [] b.t = "Excluded" -> 3 * b.p + 1
      [] b.t = "Unbounded" -> 0

\* DiscreteBoundOrd::end that places an excluded end where an excluded
\* start is, just after its point
BoundOrdEnd_excluded_after(b) ==
    CASE b.t = "Included" -> 3 * b.p
      [] b.t = "Excluded" -> 3 * b.p + 1
      [] b.t = "Unbounded" -> PosInfinity

BoundOrdEnd(b) ==
    CASE b.t = "Included" -> 3 * b.p
      [] b.t = "Excluded" -> 3 * b.p - 1
      [] b.t = "Unbounded" -> PosInfinity

Cmp(a, b) == IF a < b THEN "Less" ELSE IF a > b THEN "Greater" ELSE "Equal"

\* RangeBounds::contains for a point of the domain
Contains(r, x) == BoundOrdStart(r.s) <= 3 * x /\ 3 * x <= BoundOrdEnd(r.e)

PointsOf(r) == {x \in NUMBERS_DOMAIN : Contains(r, x)}

(***************************************************************************)
(* Range primitives (crate::utils)                                         *)
(***************************************************************************)
flip_bound(b) ==
    CASE b.t = "Included" -> Excluded(b.p)
      [] b.t = "Excluded" -> Included(b.p)
      [] b.t = "Unbounded" -> Unbounded

is_valid_range(r) ==
    CASE r.s.t = "Unbounded" \/ r.e.t = "Unbounded" -> TRUE
      [] r.s.t = "Included" /\ r.e.t = "Included" -> r.s.p <= r.e.p
      [] OTHER -> r.s.p < r.e.p

\* overlaps that counts a contact at one point with one side inclusive
overlaps_one_side_inclusive(a, b) ==
    /\ BoundOrdStart(a.s) <= BoundOrdEnd(b.e) + 1
    /\ BoundOrdStart(b.s) <= BoundOrdEnd(a.e) + 1

overlaps(a, b) ==
    /\ BoundOrdStart(a.s) <= BoundOrdEnd(b.e)
    /\ BoundOrdStart(b.s) <= BoundOrdEnd(a.e)

MaxStart(a, b) == IF BoundOrdStart(a) >= BoundOrdStart(b) THEN a ELSE b

MinEnd(a, b) == IF BoundOrdEnd(a) <= BoundOrdEnd(b) THEN a ELSE b

cut_range(base, cut) ==
    [before_cut |->
        IF BoundOrdStart(base.s) < BoundOrdStart(cut.s)
        THEN Some(Pair(base.s, flip_bound(cut.s))) ELSE None,
     inside_cut |->
        IF overlaps(base, cut)
        THEN Some(Pair(MaxStart(base.s, cut.s), MinEnd(base.e, cut.e))) ELSE None,
     after_cut |->
        IF BoundOrdEnd(cut.e) < BoundOrdEnd(base.e)
        THEN Some(Pair(flip_bound(cut.e), base.e)) ELSE None]

\* the position of an endpoint relative to a stored range
cmp_range_with_discrete_bound_ord(r, b) ==
    IF b < BoundOrdStart(r.s) THEN "Less"
    ELSE IF b > BoundOrdEnd(r.e) THEN "Greater"
    ELSE "Equal"

\* invalid_range_panic(range): TRUE when the call panics
invalid_range_panic(range) == ~is_valid_range(range)

ValidRanges == {r \in AllPairs : is_valid_range(r)}

(***************************************************************************)
(* Range-shape conversion: K::try_from_bounds.  The map is instantiated    *)
(* over (Bound, Bound) ("AnyRange", every pair), over Range (half-open     *)
(* only), over the tests' MultiBounds (closed or open), and over a range   *)
(* with an inclusive start: one of Range, RangeInclusive and RangeFrom.    *)
(***************************************************************************)
RangeTypes == {"AnyRange", "Range", "MultiBounds", "InclusiveStart"}

Representable(kind, start_bound, end_bound) ==
    CASE kind = "AnyRange" -> TRUE
      [] kind = "Range" -> start_bound.t = "Included" /\ end_bound.t = "Excluded"
      [] kind = "MultiBounds" ->
            \/ start_bound.t = "Included" /\ end_bound.t = "Included"
            \/ start_bound.t = "Excluded" /\ end_bound.t = "Excluded"
      [] kind = "InclusiveStart" -> start_bound.t = "Included"

\* Ok(range) or Err(TryFromBoundsError)
try_from_bounds(start_bound, end_bound) ==
    IF Representable(K, start_bound, end_bound)
    THEN [ok |-> TRUE, val |-> Pair(start_bound, end_bound)]
    ELSE [ok |-> FALSE]

\* the values of type K a caller can pass
RangesOf(kind) == {r \in AllPairs : Representable(kind, r.s, r.e)}

(***************************************************************************)
(* Search comparators: the position of the query endpoint relative to a    *)
(* stored range.                                                           *)
(***************************************************************************)
\* double_comp with the two starts the other way round
double_comp_reversed(inner_range, new_range) ==
    Cmp(BoundOrdStart(inner_range.s), BoundOrdStart(new_range.s))

double_comp(inner_range, new_range) ==
    Cmp(BoundOrdStart(new_range.s), BoundOrdStart(inner_range.s))

overlapping_start_comp(start, inner_range) ==
    cmp_range_with_discrete_bound_ord(inner_range, BoundOrdStart(start))

overlapping_end_comp(end, inner_range) ==
    cmp_range_with_discrete_bound_ord(inner_range, BoundOrdEnd(end))

\* touching_start_comp without the override of an Equal normal_result
touching_start_comp_no_override(start, inner_range) ==
    IF \/ inner_range.e.t = "Included" /\ start.t = "Excluded" /\ inner_range.e.p = start.p
       \/ inner_range.e.t = "Excluded" /\ start.t = "Included" /\ inner_range.e.p = start.p
    THEN "Equal"
    ELSE Cmp(BoundOrdStart(start), BoundOrdEnd(inner_range.e))

touching_start_comp(start, inner_range) ==
    IF \/ inner_range.e.t = "Included" /\ start.t = "Excluded" /\ inner_range.e.p = start.p
       \/ inner_range.e.t = "Excluded" /\ start.t = "Included" /\ inner_range.e.p = start.p
    THEN "Equal"
    ELSE LET normal_result == Cmp(BoundOrdStart(start), BoundOrdEnd(inner_range.e))
         IN  IF normal_result = "Equal" THEN "Greater" ELSE normal_result

touching_end_comp(end, inner_range) ==
    IF \/ end.t = "Included" /\ inner_range.s.t = "Excluded" /\ end.p = inner_range.s.p
       \/ end.t = "Excluded" /\ inner_range.s.t = "Included" /\ end.p = inner_range.s.p
    THEN "Equal"
    ELSE LET normal_result == Cmp(BoundOrdEnd(end), BoundOrdStart(inner_range.s))
         IN  IF normal_result = "Equal" THEN "Less" ELSE normal_result

(***************************************************************************)
(* A comparator closure is the pair of the function that made it and the   *)
(* endpoint it captured; Compare applies it to a stored range.             *)
(***************************************************************************)
Comp(name, bound) == [comp |-> name, bound |-> bound]

Compare(c, inner_range) ==
    CASE c.comp = "overlapping_start_comp" -> overlapping_start_comp(c.bound, inner_range)
      [] c.comp = "overlapping_end_comp" -> overlapping_end_comp(c.bound, inner_range)
      [] c.comp = "touching_start_comp" -> touching_start_comp(c.bound, inner_range)
      [] c.comp = "touching_end_comp" -> touching_end_comp(c.bound, inner_range)

(***************************************************************************)
(* The ordered container (btree_monstrousity::BTreeMap), searched by a     *)
(* unary comparator.  A map of at most 11 entries is one leaf node, which  *)
(* is scanned from the left: "Greater" moves on, "Equal" is a hit, "Less"  *)
(* stops the scan.                                                         *)
(***************************************************************************)
Min(S) == CHOOSE x \in S : \A y \in S : x <= y

\* the index the scan stops at, Len(m) + 1 when it runs off the node
search_node(m, c) ==
    LET stops == {i \in 1..Len(m) : Compare(c, m[i].k) # "Greater"}
    IN  IF stops = {} THEN Len(m) + 1 ELSE Min(stops)

\* the index of the entry the comparator finds, 0 when there is none
get_key_value(m, c) ==
    LET i == search_node(m, c)
    IN  IF i <= Len(m) /\ Compare(c, m[i].k) = "Equal" THEN i ELSE 0

RemoveAt(m, i) == SubSeq(m, 1, i - 1) \o SubSeq(m, i + 1, Len(m))

\* BTreeMap::remove by comparator: the map without the entry found
remove(m, c) ==
    LET i == get_key_value(m, c)
    IN  IF i = 0 THEN m ELSE RemoveAt(m, i)

\* BTreeMap::insert by binary comparator: an occupied slot keeps its key
insert(m, key, value) ==
    LET stops == {i \in 1..Len(m) : double_comp(m[i].k, key) # "Greater"}
        i == IF stops = {} THEN Len(m) + 1 ELSE Min(stops)
    IN  IF i <= Len(m) /\ double_comp(m[i].k, key) = "Equal"
        THEN [m EXCEPT ![i].v = value]
        ELSE SubSeq(m, 1, i - 1) \o <<[k |-> key, v |-> value]>> \o SubSeq(m, i, Len(m))

\* BTreeMap::range(start_comp, Included, end_comp, Included): the entries
\* from where the scan for start_comp stops to where the scan for end_comp,
\* started there, stops (that entry too when it compares Equal)
btree_range(m, start_comp, end_comp) ==
    LET lo == search_node(m, start_comp)
        stops == {i \in lo..Len(m) : Compare(end_comp, m[i].k) # "Greater"}
        hi == IF stops = {} THEN Len(m)
              ELSE IF Compare(end_comp, m[Min(stops)].k) = "Equal" THEN Min(stops)
              ELSE Min(stops) - 1
    IN  SubSeq(m, lo, hi)

\* cursor upper_bound(comp, Included): the last entry at or below, 0 if none
upper_bound(m, c) ==
    LET i == search_node(m, c)
    IN  IF i <= Len(m) /\ Compare(c, m[i].k) = "Equal" THEN i ELSE i - 1

\* cursor lower_bound(comp, Included): the first entry at or above, 0 if none
lower_bound(m, c) ==
    LET i == search_node(m, c)
    IN  IF i <= Len(m) THEN i ELSE 0

(***************************************************************************)
(* The engine.  Every operation maps the map m and its arguments to        *)
(* [result, inner, out]: the outcome, the map afterwards and what the call *)
(* returned.  A `?` is a return of "TryFromBounds" with the map as it is   *)
(* at that point; an unwrap of None is "Panic".                            *)
(***************************************************************************)
Ret(res, m, o) == [result |-> res, inner |-> m, out |-> o]

Entry(key, value) == [k |-> key, v |-> value]

\* overlapping with the start comparator built from the end-side order
overlapping_start_as_end(m, range) ==
    btree_range(m, Comp("overlapping_end_comp", range.s), Comp("overlapping_end_comp", range.e))

\* overlapping(range): the entries of the ranged traversal, in its order
overlapping(m, range) ==
    btree_range(m, Comp("overlapping_start_comp", range.s), Comp("overlapping_end_comp", range.e))

\* overlaps(range) on the map: overlapping(range).next().is_some()
map_overlaps(m, range) == overlapping(m, range) # <<>>

\* get_entry_at_point whose gap on a miss is the queried point alone
get_entry_at_point_point_gap(m, point) ==
    LET hit == get_key_value(m, Comp("overlapping_start_comp", Included(point)))
    IN  IF hit # 0
        THEN [ok |-> TRUE, val |-> m[hit]]
        ELSE [ok |-> FALSE, val |-> Pair(Included(point), Included(point))]

\* get_entry_at_point whose gap starts at the lower entry's end, unflipped
get_entry_at_point_unflipped(m, point) ==
    LET hit == get_key_value(m, Comp("overlapping_start_comp", Included(point)))
        lower == upper_bound(m, Comp("overlapping_start_comp", Included(point)))
        upper == lower_bound(m, Comp("overlapping_end_comp", Included(point)))
    IN  IF hit # 0
        THEN [ok |-> TRUE, val |-> m[hit]]
        ELSE [ok |-> FALSE,
              val |-> Pair(IF lower = 0 THEN Unbounded ELSE m[lower].k.e,
                           IF upper = 0 THEN Unbounded ELSE flip_bound(m[upper].k.s))]

get_entry_at_point(m, point) ==
    LET hit == get_key_value(m, Comp("overlapping_start_comp", Included(point)))
        lower == upper_bound(m, Comp("overlapping_start_comp", Included(point)))
        upper == lower_bound(m, Comp("overlapping_end_comp", Included(point)))
    IN  IF hit # 0
        THEN [ok |-> TRUE, val |-> m[hit]]
        ELSE [ok |-> FALSE,
              val |-> Pair(IF lower = 0 THEN Unbounded ELSE flip_bound(m[lower].k.e),
                           IF upper = 0 THEN Unbounded ELSE flip_bound(m[upper].k.s))]

get_at_point(m, point) ==
    LET e == get_entry_at_point(m, point)
    IN  IF e.ok THEN Some(e.val.v) ELSE None

(***************************************************************************)
(* gaps and contains_range.                                                *)
(***************************************************************************)
\* .map(|(key, _)| (key.start(), key.end())) over a sequence of entries
KeysOf(entries) == [i \in 1..Len(entries) |-> Pair(entries[i].k.s, entries[i].k.e)]

\* windows(2) over the artificials, each mapped to the range between the two
Windows(artificials) ==
    [i \in 1..(Len(artificials) - 1) |->
        Pair(flip_bound(artificials[i].e), flip_bound(artificials[i + 1].s))]

\* gaps that keeps the artificial start although the start is contained
gaps_keeping_artificial_start(m, outer_range) ==
    LET artificial_end == Pair(flip_bound(outer_range.e), flip_bound(outer_range.e))
        artificial_start == Pair(flip_bound(outer_range.s), flip_bound(outer_range.s))
        end_contained == get_key_value(m, Comp("overlapping_end_comp", outer_range.e)) # 0
        NextBack(artificials) ==
            SelectSeq(Windows(IF end_contained
                              THEN SubSeq(artificials, 1, Len(artificials) - 1)
                              ELSE artificials),
                      is_valid_range)
    IN  NextBack(<<artificial_start>> \o KeysOf(overlapping(m, outer_range))
                 \o <<artificial_end>>)

gaps(m, outer_range) ==
    LET artificial_start == Pair(flip_bound(outer_range.s), flip_bound(outer_range.s))
        artificial_end == Pair(flip_bound(outer_range.e), flip_bound(outer_range.e))
        start_contained == get_key_value(m, Comp("overlapping_start_comp", outer_range.s)) # 0
        end_contained == get_key_value(m, Comp("overlapping_end_comp", outer_range.e)) # 0
        NextBack(artificials) ==
            SelectSeq(Windows(IF end_contained
                              THEN SubSeq(artificials, 1, Len(artificials) - 1)
                              ELSE artificials),
                      is_valid_range)
        Next_(artificials) ==
            NextBack(IF start_contained THEN Tail(artificials) ELSE artificials)
    IN  Next_(<<artificial_start>> \o KeysOf(overlapping(m, outer_range))
              \o <<artificial_end>>)

\* contains_range that asks whether any entry overlaps the range
contains_range_any_overlap(m, range) == map_overlaps(m, range)

\* self.gaps(range).next().is_none()
contains_range(m, range) == gaps(m, range) = <<>>

\* remove_overlapping whose iterator is advanced once and then forgotten
remove_overlapping_first_only(m, range) ==
    LET First(hits) ==
            IF hits = <<>> THEN Ret("Ok", m, <<>>)
            ELSE Ret("Ok", SelectSeq(m, LAMBDA e : e # hits[1]), <<hits[1]>>)
    IN  First(SelectSeq(m, LAMBDA e : overlaps(e.k, range)))

\* remove_overlapping whose iterator yields but drains nothing
remove_overlapping_undrained(m, range) ==
    Ret("Ok", m, SelectSeq(m, LAMBDA e : overlaps(e.k, range)))

\* drain_filter by overlaps(inner_range, range), run to its end
remove_overlapping(m, range) ==
    IF invalid_range_panic(range) THEN Ret("Panic", m, <<>>)
    ELSE Ret("Ok", SelectSeq(m, LAMBDA e : ~overlaps(e.k, range)),
                   SelectSeq(m, LAMBDA e : overlaps(e.k, range)))

insert_unchecked(m, range, value) == insert(m, range, value)

\* insert_strict without its overlap check
insert_strict_unchecked(m, range, value) ==
    Ret("Ok", insert(m, range, value), <<>>)

\* insert_strict that only looks for an entry over the start of the range
insert_strict_start_only(m, range, value) ==
    IF get_key_value(m, Comp("overlapping_start_comp", range.s)) # 0
    THEN Ret("Overlap", m, <<>>)
    ELSE Ret("Ok", insert(m, range, value), <<>>)

insert_strict(m, range, value) ==
    IF invalid_range_panic(range) THEN Ret("Panic", m, <<>>)
    ELSE IF map_overlaps(m, range)
    THEN Ret("Overlap", m, <<>>)
    ELSE Ret("Ok", insert_unchecked(m, range, value), <<>>)

\* BTreeMap::remove returns the value of the entry it removed, if any
ValueAt(m, i) == IF i = 0 THEN None ELSE Some(m[i].v)

\* cut_single_overlapping that yields the whole entry and not its inside slice
cut_single_overlapping_whole(m, range, single_overlapping_range) ==
    LET cut_result == cut_range(single_overlapping_range, range)
        returning_before_cut ==
            IF cut_result.before_cut.some
            THEN try_from_bounds(cut_result.before_cut.val.s, cut_result.before_cut.val.e)
            ELSE [ok |-> TRUE]
        returning_after_cut ==
            IF cut_result.after_cut.some
            THEN try_from_bounds(cut_result.after_cut.val.s, cut_result.after_cut.val.e)
            ELSE [ok |-> TRUE]
        Yield(value, m3) ==
            IF ~cut_result.inside_cut.some THEN Ret("Panic", m3, <<>>)
            ELSE Ret("Ok", m3, <<Entry(single_overlapping_range, value)>>)
        InsertAfter(value, m2) ==
            Yield(value, IF cut_result.after_cut.some
                         THEN insert_unchecked(m2, returning_after_cut.val, value) ELSE m2)
        InsertBefore(value, m1) ==
            InsertAfter(value, IF cut_result.before_cut.some
                               THEN insert_unchecked(m1, returning_before_cut.val, value) ELSE m1)
        Removed(value) ==
            IF ~value.some THEN Ret("Panic", m, <<>>)
            ELSE InsertBefore(value.val, remove(m, Comp("overlapping_start_comp", range.s)))
    IN  IF ~returning_before_cut.ok \/ ~returning_after_cut.ok
        THEN Ret("TryFromBounds", m, <<>>)
        ELSE Removed(ValueAt(m, get_key_value(m, Comp("overlapping_start_comp", range.s))))

\* cut_single_overlapping that reinserts a piece before the cut even when
\* cut_range reports none
cut_single_overlapping_always_before(m, range, single_overlapping_range) ==
    LET cut_result == cut_range(single_overlapping_range, range)
        returning_before_cut ==
            IF cut_result.before_cut.some
            THEN try_from_bounds(cut_result.before_cut.val.s, cut_result.before_cut.val.e)
            ELSE try_from_bounds(single_overlapping_range.s, flip_bound(range.s))
        returning_after_cut ==
            IF cut_result.after_cut.some
            THEN try_from_bounds(cut_result.after_cut.val.s, cut_result.after_cut.val.e)
            ELSE [ok |-> TRUE]
        Yield(value, m3) ==
            IF ~cut_result.inside_cut.some THEN Ret("Panic", m3, <<>>)
            ELSE Ret("Ok", m3, <<Entry(cut_result.inside_cut.val, value)>>)
        InsertAfter(value, m2) ==
            Yield(value, IF cut_result.after_cut.some
                         THEN insert_unchecked(m2, returning_after_cut.val, value) ELSE m2)
        InsertBefore(value, m1) ==
            InsertAfter(value, insert_unchecked(m1, returning_before_cut.val, value))
        Removed(value) ==
            IF ~value.some THEN Ret("Panic", m, <<>>)
            ELSE InsertBefore(value.val, remove(m, Comp("overlapping_start_comp", range.s)))
    IN  IF ~returning_before_cut.ok \/ ~returning_after_cut.ok
        THEN Ret("TryFromBounds", m, <<>>)
        ELSE Removed(ValueAt(m, get_key_value(m, Comp("overlapping_start_comp", range.s))))

cut_single_overlapping(m, range, single_overlapping_range) ==
    LET cut_result == cut_range(single_overlapping_range, range)
        returning_before_cut ==
            IF cut_result.before_cut.some
            THEN try_from_bounds(cut_result.before_cut.val.s, cut_result.before_cut.val.e)
            ELSE [ok |-> TRUE]
        returning_after_cut ==
            IF cut_result.after_cut.some
            THEN try_from_bounds(cut_result.after_cut.val.s, cut_result.after_cut.val.e)
            ELSE [ok |-> TRUE]
        Yield(value, m3) ==
            IF ~cut_result.inside_cut.some THEN Ret("Panic", m3, <<>>)
            ELSE Ret("Ok", m3, <<Entry(cut_result.inside_cut.val, value)>>)
        InsertAfter(value, m2) ==
            Yield(value, IF cut_result.after_cut.some
                         THEN insert_unchecked(m2, returning_after_cut.val, value) ELSE m2)
        InsertBefore(value, m1) ==
            InsertAfter(value, IF cut_result.before_cut.some
                               THEN insert_unchecked(m1, returning_before_cut.val, value) ELSE m1)
        Removed(value) ==
            IF ~value.some THEN Ret("Panic", m, <<>>)
            ELSE InsertBefore(value.val, remove(m, Comp("overlapping_start_comp", range.s)))
    IN  IF ~returning_before_cut.ok \/ ~returning_after_cut.ok
        THEN Ret("TryFromBounds", m, <<>>)
        ELSE Removed(ValueAt(m, get_key_value(m, Comp("overlapping_start_comp", range.s))))

\* cut_non_single_overlapping that clones the left straddler's value for
\* the leftover piece of the right one
cut_non_single_overlapping_before_value_twice(m, range, left_overlapping, right_overlapping) ==
    LET left_cut == cut_range(m[left_overlapping].k, range)
        right_cut == cut_range(m[right_overlapping].k, range)
        has_before == left_overlapping # 0 /\ left_cut.before_cut.some
        has_after == right_overlapping # 0 /\ right_cut.after_cut.some
        returning_before_cut ==
            IF has_before
            THEN try_from_bounds(left_cut.before_cut.val.s, left_cut.before_cut.val.e)
            ELSE [ok |-> TRUE]
        returning_after_cut ==
            IF has_after
            THEN try_from_bounds(right_cut.after_cut.val.s, right_cut.after_cut.val.e)
            ELSE [ok |-> TRUE]
        Chain(before_value, after_value, removed) ==
            Ret("Ok", removed.inner,
                (IF left_overlapping # 0
                 THEN <<Entry(left_cut.inside_cut.val, before_value.val)>> ELSE <<>>)
                \o removed.out
                \o (IF right_overlapping # 0
                    THEN <<Entry(right_cut.inside_cut.val, after_value.val)>> ELSE <<>>))
        Keep(before_value, after_value, m4) ==
            IF left_overlapping # 0 /\ ~before_value.some THEN Ret("Panic", m4, <<>>)
            ELSE IF right_overlapping # 0 /\ ~after_value.some THEN Ret("Panic", m4, <<>>)
            ELSE Chain(before_value, after_value, remove_overlapping(m4, range))
        InsertAfter(before_value, after_value, m3) ==
            IF has_after /\ ~after_value.some THEN Ret("Panic", m3, <<>>)
            ELSE Keep(before_value, after_value,
                      IF has_after
                      THEN insert_unchecked(m3, returning_after_cut.val,
                                            IF before_value.some THEN before_value.val
                                            ELSE after_value.val)
                      ELSE m3)
        InsertBefore(before_value, after_value, m2) ==
            IF has_before /\ ~before_value.some THEN Ret("Panic", m2, <<>>)
            ELSE InsertAfter(before_value, after_value,
                             IF has_before
                             THEN insert_unchecked(m2, returning_before_cut.val, before_value.val)
                             ELSE m2)
        RemoveAfter(before_value, m1) ==
            InsertBefore(before_value,
                         ValueAt(m1, get_key_value(m1, Comp("overlapping_end_comp", range.e))),
                         remove(m1, Comp("overlapping_end_comp", range.e)))
    IN  IF ~returning_before_cut.ok THEN Ret("TryFromBounds", m, <<>>)
        ELSE IF left_overlapping # 0 /\ ~left_cut.inside_cut.some THEN Ret("Panic", m, <<>>)
        ELSE IF ~returning_after_cut.ok THEN Ret("TryFromBounds", m, <<>>)
        ELSE IF right_overlapping # 0 /\ ~right_cut.inside_cut.some THEN Ret("Panic", m, <<>>)
        ELSE RemoveAfter(ValueAt(m, get_key_value(m, Comp("overlapping_start_comp", range.s))),
                         remove(m, Comp("overlapping_start_comp", range.s)))

\* left_overlapping and right_overlapping are indices into m, 0 for None
cut_non_single_overlapping(m, range, left_overlapping, right_overlapping) ==
    LET left_cut == cut_range(m[left_overlapping].k, range)
        right_cut == cut_range(m[right_overlapping].k, range)
        has_before == left_overlapping # 0 /\ left_cut.before_cut.some
        has_after == right_overlapping # 0 /\ right_cut.after_cut.some
        returning_before_cut ==
            IF has_before
            THEN try_from_bounds(left_cut.before_cut.val.s, left_cut.before_cut.val.e)
            ELSE [ok |-> TRUE]
        returning_after_cut ==
            IF has_after
            THEN try_from_bounds(right_cut.after_cut.val.s, right_cut.after_cut.val.e)
            ELSE [ok |-> TRUE]
        Chain(before_value, after_value, removed) ==
            Ret("Ok", removed.inner,
                (IF left_overlapping # 0
                 THEN <<Entry(left_cut.inside_cut.val, before_value.val)>> ELSE <<>>)
                \o removed.out
                \o (IF right_overlapping # 0
                    THEN <<Entry(right_cut.inside_cut.val, after_value.val)>> ELSE <<>>))
        Keep(before_value, after_value, m4) ==
            IF left_overlapping # 0 /\ ~before_value.some THEN Ret("Panic", m4, <<>>)
            ELSE IF right_overlapping # 0 /\ ~after_value.some THEN Ret("Panic", m4, <<>>)
            ELSE Chain(before_value, after_value, remove_overlapping(m4, range))
        InsertAfter(before_value, after_value, m3) ==
            IF has_after /\ ~after_value.some THEN Ret("Panic", m3, <<>>)
            ELSE Keep(before_value, after_value,
                      IF has_after
                      THEN insert_unchecked(m3, returning_after_cut.val, after_value.val)
                      ELSE m3)
        InsertBefore(before_value, after_value, m2) ==
            IF has_before /\ ~before_value.some THEN Ret("Panic", m2, <<>>)
            ELSE InsertAfter(before_value, after_value,
                             IF has_before
                             THEN insert_unchecked(m2, returning_before_cut.val, before_value.val)
                             ELSE m2)
        RemoveAfter(before_value, m1) ==
            InsertBefore(before_value,
                         ValueAt(m1, get_key_value(m1, Comp("overlapping_end_comp", range.e))),
                         remove(m1, Comp("overlapping_end_comp", range.e)))
    IN  IF ~returning_before_cut.ok THEN Ret("TryFromBounds", m, <<>>)
        ELSE IF left_overlapping # 0 /\ ~left_cut.inside_cut.some THEN Ret("Panic", m, <<>>)
        ELSE IF ~returning_after_cut.ok THEN Ret("TryFromBounds", m, <<>>)
        ELSE IF right_overlapping # 0 /\ ~right_cut.inside_cut.some THEN Ret("Panic", m, <<>>)
        ELSE RemoveAfter(ValueAt(m, get_key_value(m, Comp("overlapping_start_comp", range.s))),
                         remove(m, Comp("overlapping_start_comp", range.s)))

\* cut that removes the left straddler before the leftover pieces are probed
cut_removes_before_probe(m, range) ==
    LET Dispatch(left_overlapping, right_overlapping) ==
            IF /\ left_overlapping # 0
               /\ right_overlapping # 0
               /\ m[left_overlapping].k.s = m[right_overlapping].k.s
            THEN cut_single_overlapping(m, range, m[left_overlapping].k)
            ELSE cut_non_single_overlapping(m, range, left_overlapping, right_overlapping)
        Early(r) ==
            IF r.result = "TryFromBounds"
            THEN Ret("TryFromBounds", remove(m, Comp("overlapping_start_comp", range.s)), <<>>)
            ELSE r
    IN  Early(Dispatch(get_key_value(m, Comp("overlapping_start_comp", range.s)),
                       get_key_value(m, Comp("overlapping_end_comp", range.e))))

cut(m, range) ==
    LET Dispatch(left_overlapping, right_overlapping) ==
            IF /\ left_overlapping # 0
               /\ right_overlapping # 0
               /\ m[left_overlapping].k.s = m[right_overlapping].k.s
            THEN cut_single_overlapping(m, range, m[left_overlapping].k)
            ELSE cut_non_single_overlapping(m, range, left_overlapping, right_overlapping)
    IN  IF invalid_range_panic(range) THEN Ret("Panic", m, <<>>)
        ELSE Dispatch(get_key_value(m, Comp("overlapping_start_comp", range.s)),
                      get_key_value(m, Comp("overlapping_end_comp", range.e)))

\* insert_overwrite without the cut
insert_overwrite_uncut(m, range, value) ==
    Ret("Ok", insert_unchecked(m, range, value), <<>>)

\* insert_overwrite that drops the error of the cut and inserts all the same
insert_overwrite_ignoring_error(m, range, value) ==
    Ret("Ok", insert_unchecked(cut(m, range).inner, range, value), <<>>)

\* cut(range)? and then insert_unchecked(range, value)
insert_overwrite(m, range, value) ==
    LET Insert(c) ==
            IF c.result # "Ok" THEN Ret(c.result, c.inner, <<>>)
            ELSE Ret("Ok", insert_unchecked(c.inner, range, value), <<>>)
    IN  IF invalid_range_panic(range) THEN Ret("Panic", m, <<>>)
        ELSE Insert(cut(m, range))

(***************************************************************************)
(* The merging insertions.  Each passes insert_merge_with_comps four       *)
(* closures; `variant` names the insertion whose closures they are.        *)
(***************************************************************************)
\* inner.get_key_value(comp).map(|(key, _)| key).copied()
KeyAt(m, i) == IF i = 0 THEN None ELSE Some(m[i].k)

\* get_key_value(comp).filter(|(_, touching_value)| touching_value == value)
KeyAtIfValue(m, i, value) == IF i # 0 /\ m[i].v = value THEN Some(m[i].k) ELSE None

\* Option::or: the first if it is Some, else the second
OrElse(a, b) == IF a.some THEN a ELSE b

get_start(variant, selfy, range, value) ==
    CASE variant = "touching" ->
            KeyAt(selfy, get_key_value(selfy, Comp("touching_start_comp", range.s)))
      [] variant = "touching_if_values_equal" ->
            KeyAtIfValue(selfy, get_key_value(selfy, Comp("touching_start_comp", range.s)), value)
      [] variant = "overlapping" ->
            KeyAt(selfy, get_key_value(selfy, Comp("overlapping_start_comp", range.s)))
      [] variant = "touching_or_overlapping" ->
            OrElse(KeyAt(selfy, get_key_value(selfy, Comp("touching_start_comp", range.s))),
                   KeyAt(selfy, get_key_value(selfy, Comp("overlapping_start_comp", range.s))))

get_end(variant, selfy, range, value) ==
    CASE variant = "touching" ->
            KeyAt(selfy, get_key_value(selfy, Comp("touching_end_comp", range.e)))
      [] variant = "touching_if_values_equal" ->
            KeyAtIfValue(selfy, get_key_value(selfy, Comp("touching_end_comp", range.e)), value)
      [] variant = "overlapping" ->
            KeyAt(selfy, get_key_value(selfy, Comp("overlapping_end_comp", range.e)))
      [] variant = "touching_or_overlapping" ->
            OrElse(KeyAt(selfy, get_key_value(selfy, Comp("touching_end_comp", range.e))),
                   KeyAt(selfy, get_key_value(selfy, Comp("overlapping_end_comp", range.e))))

remove_start(variant, selfy, range, value) ==
    CASE variant = "touching" -> remove(selfy, Comp("touching_start_comp", range.s))
      [] variant = "touching_if_values_equal" ->
            IF get_start(variant, selfy, range, value).some
            THEN remove(selfy, Comp("touching_start_comp", range.s)) ELSE selfy
      [] variant = "overlapping" -> selfy
      [] variant = "touching_or_overlapping" -> remove(selfy, Comp("touching_start_comp", range.s))

remove_end(variant, selfy, range, value) ==
    CASE variant = "touching" -> remove(selfy, Comp("touching_end_comp", range.e))
      [] variant = "touching_if_values_equal" ->
            IF get_end(variant, selfy, range, value).some
            THEN remove(selfy, Comp("touching_end_comp", range.e)) ELSE selfy
      [] variant = "overlapping" -> selfy
      [] variant = "touching_or_overlapping" -> remove(selfy, Comp("touching_end_comp", range.e))

\* insert_merge_with_comps that probes the merged range after the removals
insert_merge_with_comps_late_probe(m, range, value, variant) ==
    LET Insert(returning, m3) ==
            IF ~returning.ok THEN Ret("TryFromBounds", m3, <<>>)
            ELSE Ret("Ok", insert_unchecked(m3, returning.val, value), <<returning.val>>)
        Merge(matching_start, matching_end) ==
            Insert(IF matching_start.some /\ matching_end.some
                   THEN try_from_bounds(matching_start.val.s, matching_end.val.e)
                   ELSE IF matching_start.some
                   THEN try_from_bounds(matching_start.val.s, range.e)
                   ELSE IF matching_end.some
                   THEN try_from_bounds(range.s, matching_end.val.e)
                   ELSE [ok |-> TRUE, val |-> range],
                   remove_end(variant,
                              remove_start(variant, remove_overlapping(m, range).inner,
                                           range, value),
                              range, value))
    IN  Merge(get_start(variant, m, range, value), get_end(variant, m, range, value))

insert_merge_with_comps(m, range, value, variant) ==
    LET Insert(returning, m3) ==
            IF ~returning.ok THEN Ret("TryFromBounds", m, <<>>)
            ELSE Ret("Ok", insert_unchecked(m3, returning.val, value), <<returning.val>>)
        Merge(matching_start, matching_end) ==
            Insert(IF matching_start.some /\ matching_end.some
                   THEN try_from_bounds(matching_start.val.s, matching_end.val.e)
                   ELSE IF matching_start.some
                   THEN try_from_bounds(matching_start.val.s, range.e)
                   ELSE IF matching_end.some
                   THEN try_from_bounds(range.s, matching_end.val.e)
                   ELSE [ok |-> TRUE, val |-> range],
                   remove_end(variant,
                              remove_start(variant, remove_overlapping(m, range).inner,
                                           range, value),
                              range, value))
    IN  Merge(get_start(variant, m, range, value), get_end(variant, m, range, value))

\* insert_merge_touching handed the closures of insert_merge_overlapping
insert_merge_touching_overlapping_closures(m, range, value) ==
    IF map_overlaps(m, range) THEN Ret("Overlap", m, <<>>)
    ELSE insert_merge_with_comps(m, range, value, "overlapping")

insert_merge_touching(m, range, value) ==
    IF invalid_range_panic(range) THEN Ret("Panic", m, <<>>)
    ELSE IF map_overlaps(m, range) THEN Ret("Overlap", m, <<>>)
    ELSE insert_merge_with_comps(m, range, value, "touching")

\* insert_merge_touching_if_values_equal handed the closures of insert_merge_touching
insert_merge_touching_if_values_equal_any_value(m, range, value) ==
    IF map_overlaps(m, range) THEN Ret("Overlap", m, <<>>)
    ELSE insert_merge_with_comps(m, range, value, "touching")

insert_merge_touching_if_values_equal(m, range, value) ==
    IF invalid_range_panic(range) THEN Ret("Panic", m, <<>>)
    ELSE IF map_overlaps(m, range) THEN Ret("Overlap", m, <<>>)
    ELSE insert_merge_with_comps(m, range, value, "touching_if_values_equal")

\* insert_merge_overlapping handed the closures that also take touching entries
insert_merge_overlapping_touching_closures(m, range, value) ==
    insert_merge_with_comps(m, range, value, "touching_or_overlapping")

insert_merge_overlapping(m, range, value) ==
    IF invalid_range_panic(range) THEN Ret("Panic", m, <<>>)
    ELSE insert_merge_with_comps(m, range, value, "overlapping")

insert_merge_touching_or_overlapping(m, range, value) ==
    IF invalid_range_panic(range) THEN Ret("Panic", m, <<>>)
    ELSE insert_merge_with_comps(m, range, value, "touching_or_overlapping")

(***************************************************************************)
(* The state machine: a map created empty and then driven by any sequence  *)
(* of public calls with valid arguments.  What a call returns borrows the  *)
(* map (the iterators of cut, remove_overlapping and overlapping, the      *)
(* entry of get_entry_at_point), so the caller lets go of it before the    *)
(* next call: Release.  A lazy iterator has then run to its end, by being  *)
(* consumed or by its drop.                                                *)
(***************************************************************************)
PointRange(point) == Pair(Included(point), Included(point))

Init ==
    /\ K \in RangeTypes
    /\ inner = <<>>
    /\ prev = <<>>
    /\ op = "idle"
    /\ arg = Pair(Unbounded, Unbounded)
    /\ val = FALSE
    /\ result = "Ok"
    /\ out = <<>>

\* the call `name` with the given arguments returned r
Returns(name, range, value, r) ==
    /\ op = "idle"
    /\ prev' = inner
    /\ op' = name
    /\ arg' = range
    /\ val' = value
    /\ inner' = r.inner
    /\ result' = r.result
    /\ out' = r.out
    /\ UNCHANGED K

\* the ranges of type K that pass invalid_range_panic
KeyArgs == {r \in RangesOf(K) : is_valid_range(r)}

InsertStrict ==
    \E r \in KeyArgs, v \in Values :
        Returns("insert_strict", r, v, insert_strict(inner, r, v))

InsertMergeTouching ==
    \E r \in KeyArgs, v \in Values :
        Returns("insert_merge_touching", r, v, insert_merge_touching(inner, r, v))

InsertMergeTouchingIfValuesEqual ==
    \E r \in KeyArgs, v \in Values :
        Returns("insert_merge_touching_if_values_equal", r, v,
                insert_merge_touching_if_values_equal(inner, r, v))

InsertMergeOverlapping ==
    \E r \in KeyArgs, v \in Values :
        Returns("insert_merge_overlapping", r, v, insert_merge_overlapping(inner, r, v))

InsertMergeTouchingOrOverlapping ==
    \E r \in KeyArgs, v \in Values :
        Returns("insert_merge_touching_or_overlapping", r, v,
                insert_merge_touching_or_overlapping(inner, r, v))

InsertOverwrite ==
    \E r \in KeyArgs, v \in Values :
        Returns("insert_overwrite", r, v, insert_overwrite(inner, r, v))

Cut ==
    \E q \in ValidRanges :
        Returns("cut", q, FALSE, cut(inner, q))

RemoveOverlapping ==
    \E q \in ValidRanges :
        Returns("remove_overlapping", q, FALSE, remove_overlapping(inner, q))

Overlapping ==
    \E q \in ValidRanges :
        Returns("overlapping", q, FALSE, Ret("Ok", inner, overlapping(inner, q)))

Overlaps ==
    \E q \in ValidRanges :
        Returns("overlaps", q, FALSE, Ret("Ok", inner, <<map_overlaps(inner, q)>>))

GetEntryAtPoint ==
    \E point \in NUMBERS_DOMAIN :
        Returns("get_entry_at_point", PointRange(point), FALSE,
                LET e == get_entry_at_point(inner, point)
                IN  Ret(IF e.ok THEN "Ok" ELSE "Err", inner, <<e.val>>))

Gaps ==
    \E q \in ValidRanges :
        Returns("gaps", q, FALSE, Ret("Ok", inner, gaps(inner, q)))

ContainsRange ==
    \E q \in ValidRanges :
        Returns("contains_range", q, FALSE, Ret("Ok", inner, <<contains_range(inner, q)>>))

\* the caller drops what the last call returned; the map is free again
Release ==
    /\ op # "idle"
    /\ op' = "idle"
    /\ prev' = inner
    /\ arg' = Pair(Unbounded, Unbounded)
    /\ val' = FALSE
    /\ result' = "Ok"
    /\ out' = <<>>
    /\ UNCHANGED <<K, inner>>

Next ==
    \/ InsertStrict
    \/ InsertMergeTouching
    \/ InsertMergeTouchingIfValuesEqual
    \/ InsertMergeOverlapping
    \/ InsertMergeTouchingOrOverlapping
    \/ InsertOverwrite
    \/ Cut
    \/ RemoveOverlapping
    \/ Overlapping
    \/ Overlaps
    \/ GetEntryAtPoint
    \/ Gaps
    \/ ContainsRange
    \/ Release

Spec == Init /\ [][Next]_vars

(***************************************************************************)
(* The machine of a caller that does not keep to valid ranges: the map is  *)
(* built by from_slice_strict from any slice of at most MaxSlice ranges of *)
(* type K, valid or not, and every entry point that takes a range is then  *)
(* called with an invalid one.                                             *)
(***************************************************************************)
MaxSlice == 3

\* new(), then insert_strict(range, value)? for each entry of the slice
from_slice_strict(slice) ==
    LET map[i \in 0..Len(slice)] ==
            LET Insert(before) ==
                    IF before.result # "Ok" THEN before
                    ELSE insert_strict(before.inner, slice[i].k, slice[i].v)
            IN  IF i = 0 THEN Ret("Ok", <<>>, <<>>) ELSE Insert(map[i - 1])
        Return(r) == IF r.result = "Ok" THEN r ELSE Ret(r.result, <<>>, <<>>)
    IN  Return(map[Len(slice)])

Slices(n, value) == [1..n -> {Entry(r, value) : r \in RangesOf(K)}]

FromSliceStrict ==
    /\ op = "idle"
    /\ inner = <<>>
    /\ \E v \in Values, n \in 0..MaxSlice : \E slice \in Slices(n, v) :
        Returns("from_slice_strict", slice, v, from_slice_strict(slice))

\* the ranges that do not pass invalid_range_panic
InvalidKeyArgs == {r \in RangesOf(K) : ~is_valid_range(r)}

InvalidRanges == {r \in AllPairs : ~is_valid_range(r)}

InsertStrictInvalid ==
    \E r \in InvalidKeyArgs, v \in Values :
        Returns("insert_strict", r, v, insert_strict(inner, r, v))

InsertMergeTouchingInvalid ==
    \E r \in InvalidKeyArgs, v \in Values :
        Returns("insert_merge_touching", r, v, insert_merge_touching(inner, r, v))

InsertMergeTouchingIfValuesEqualInvalid ==
    \E r \in InvalidKeyArgs, v \in Values :
        Returns("insert_merge_touching_if_values_equal", r, v,
                insert_merge_touching_if_values_equal(inner, r, v))

InsertMergeOverlappingInvalid ==
    \E r \in InvalidKeyArgs, v \in Values :
        Returns("insert_merge_overlapping", r, v, insert_merge_overlapping(inner, r, v))

InsertMergeTouchingOrOverlappingInvalid ==
    \E r \in InvalidKeyArgs, v \in Values :
        Returns("insert_merge_touching_or_overlapping", r, v,
                insert_merge_touching_or_overlapping(inner, r, v))

InsertOverwriteInvalid ==
    \E r \in InvalidKeyArgs, v \in Values :
        Returns("insert_overwrite", r, v, insert_overwrite(inner, r, v))

CutInvalid ==
    \E q \in InvalidRanges :
        Returns("cut", q, FALSE, cut(inner, q))

RemoveOverlappingInvalid ==
    \E q \in InvalidRanges :
        Returns("remove_overlapping", q, FALSE, remove_overlapping(inner, q))

OverlappingInvalid ==
    \E q \in InvalidRanges :
        Returns("overlapping", q, FALSE,
                IF invalid_range_panic(q) THEN Ret("Panic", inner, <<>>)
                ELSE Ret("Ok", inner, overlapping(inner, q)))

OverlapsInvalid ==
    \E q \in InvalidRanges :
        Returns("overlaps", q, FALSE,
                IF invalid_range_panic(q) THEN Ret("Panic", inner, <<>>)
                ELSE Ret("Ok", inner, <<map_overlaps(inner, q)>>))

GapsInvalid ==
    \E q \in InvalidRanges :
        Returns("gaps", q, FALSE,
                IF invalid_range_panic(q) THEN Ret("Panic", inner, <<>>)
                ELSE Ret("Ok", inner, gaps(inner, q)))

ContainsRangeInvalid ==
    \E q \in InvalidRanges :
        Returns("contains_range", q, FALSE,
                IF invalid_range_panic(q) THEN Ret("Panic", inner, <<>>)
                ELSE Ret("Ok", inner, <<contains_range(inner, q)>>))

NextAnyRange ==
    \/ FromSliceStrict
    \/ InsertStrictInvalid
    \/ InsertMergeTouchingInvalid
    \/ InsertMergeTouchingIfValuesEqualInvalid
    \/ InsertMergeOverlappingInvalid
    \/ InsertMergeTouchingOrOverlappingInvalid
    \/ InsertOverwriteInvalid
    \/ CutInvalid
    \/ RemoveOverlappingInvalid
    \/ OverlappingInvalid
    \/ OverlapsInvalid
    \/ GapsInvalid
    \/ ContainsRangeInvalid
    \/ Release

SpecAnyRange == Init /\ [][NextAnyRange]_vars

(***************************************************************************)
(* The primitives on their own: the endpoint order, applied to every pair  *)
(* of ranges with endpoints in NUMBERS.  arg holds the two ranges and out  *)
(* what the primitive returned.                                            *)
(***************************************************************************)
InitPrimitives ==
    /\ K = "AnyRange"
    /\ inner = <<>>
    /\ prev = <<>>
    /\ op = "idle"
    /\ arg \in AllPairs \X AllPairs
    /\ val = FALSE
    /\ result = "Ok"
    /\ out = <<>>

\* the primitive `name` returned r for the two ranges of arg
Yields(name, r) ==
    /\ op = "idle"
    /\ op' = name
    /\ out' = r
    /\ UNCHANGED <<K, inner, prev, arg, val, result>>

\* DiscreteBoundOrd::cmp on the endpoints of the two ranges, each start and
\* each end of the first against each of the second
BoundOrdCmp ==
    Yields("cmp", [ss |-> Cmp(BoundOrdStart(arg[1].s), BoundOrdStart(arg[2].s)),
                   se |-> Cmp(BoundOrdStart(arg[1].s), BoundOrdEnd(arg[2].e)),
                   es |-> Cmp(BoundOrdEnd(arg[1].e), BoundOrdStart(arg[2].s)),
                   ee |-> Cmp(BoundOrdEnd(arg[1].e), BoundOrdEnd(arg[2].e))])

\* utils::overlaps on two valid ranges
UtilsOverlaps ==
    /\ is_valid_range(arg[1])
    /\ is_valid_range(arg[2])
    /\ Yields("utils::overlaps", overlaps(arg[1], arg[2]))

\* utils::cut_range on a valid base and a valid cut
UtilsCutRange ==
    /\ is_valid_range(arg[1])
    /\ is_valid_range(arg[2])
    /\ Yields("cut_range", cut_range(arg[1], arg[2]))

\* the four search comparators made from the endpoints of the query arg[1],
\* applied to the valid stored range arg[2]
SearchComps ==
    /\ is_valid_range(arg[2])
    /\ Yields("search_comps",
              [touching_start |-> touching_start_comp(arg[1].s, arg[2]),
               touching_end |-> touching_end_comp(arg[1].e, arg[2]),
               overlapping_start |-> overlapping_start_comp(arg[1].s, arg[2]),
               overlapping_end |-> overlapping_end_comp(arg[1].e, arg[2])])

NextPrimitives ==
    \/ BoundOrdCmp
    \/ UtilsOverlaps
    \/ UtilsCutRange
    \/ SearchComps

SpecPrimitives == InitPrimitives /\ [][NextPrimitives]_vars

(***************************************************************************)
(* What the contracts are stated in: points, coverage and entries, read    *)
(* off the map without its search code.                                    *)
(***************************************************************************)
SharePoint(a, b) == PointsOf(a) \cap PointsOf(b) # {}

Covered(m) == {x \in NUMBERS_DOMAIN : \E i \in 1..Len(m) : Contains(m[i].k, x)}

EntrySet(m) == {m[i] : i \in 1..Len(m)}

\* the entries of m whose range shares a point with q, in the order of m
Overlappers(m, q) == SelectSeq(m, LAMBDA e : SharePoint(e.k, q))

MergeOps ==
    {"insert_merge_touching", "insert_merge_touching_if_values_equal",
     "insert_merge_overlapping", "insert_merge_touching_or_overlapping"}

(***************************************************************************)
(* C1 (I1, non-overlap): after any sequence of public operations from the  *)
(* empty map, no two distinct stored entries have ranges sharing a point.  *)
(***************************************************************************)
C1_NonOverlap ==
    \A i, j \in 1..Len(inner) : i # j => ~SharePoint(inner[i].k, inner[j].k)

\* a merging insertion has just replaced several entries next to others
C1_Witness ==
    /\ op = "insert_merge_touching_or_overlapping"
    /\ result = "Ok"
    /\ Len(prev) >= 3
    /\ Len(inner) = 2

(***************************************************************************)
(* C2: whenever cut(q) returns the TryFromBounds error, the map is the     *)
(* map before the call (every leftover piece is probed before anything is  *)
(* removed or inserted).                                                   *)
(***************************************************************************)
C2_CutAtomicOnFailure ==
    (op = "cut" /\ result = "TryFromBounds") => inner = prev

\* a failed cut across two straddlers: the left leftover is representable,
\* the right one is not
C2_Witness ==
    /\ op = "cut"
    /\ result = "TryFromBounds"
    /\ \E i, j \in 1..Len(prev) :
        /\ i < j
        /\ Compare(Comp("overlapping_start_comp", arg.s), prev[i].k) = "Equal"
        /\ Compare(Comp("overlapping_end_comp", arg.e), prev[j].k) = "Equal"
        /\ cut_range(prev[i].k, arg).before_cut.some
        /\ Representable(K, prev[i].k.s, flip_bound(arg.s))
        /\ ~Representable(K, flip_bound(arg.e), prev[j].k.e)

(***************************************************************************)
(* C3: insert_strict(range, value) returns Overlap iff some stored range   *)
(* shares a point with range; on Overlap the map is unchanged; on success  *)
(* the map is the old map plus the one entry (range, value).               *)
(***************************************************************************)
C3_InsertStrict ==
    op = "insert_strict" =>
        /\ result \in {"Ok", "Overlap"}
        /\ result = "Overlap" <=> \E i \in 1..Len(prev) : SharePoint(prev[i].k, arg)
        /\ result = "Overlap" => inner = prev
        /\ result = "Ok" =>
            /\ Len(inner) = Len(prev) + 1
            /\ EntrySet(inner) = EntrySet(prev) \cup {Entry(arg, val)}
            /\ \E i \in 1..Len(inner) : inner[i] = Entry(arg, val) /\ RemoveAt(inner, i) = prev

\* a successful strict insertion between two stored entries
C3_Witness ==
    /\ op = "insert_strict"
    /\ result = "Ok"
    /\ Len(inner) = 3
    /\ inner[2] = Entry(arg, val)

(***************************************************************************)
(* C4: a merging insertion that returns an error (Overlap or               *)
(* TryFromBounds) leaves the map as it was before the call.                *)
(***************************************************************************)
C4_MergeAtomicOnFailure ==
    (op \in MergeOps /\ result # "Ok") => inner = prev

\* an unrepresentable merge over entries that overlap the inserted range
C4_Witness ==
    /\ op \in {"insert_merge_overlapping", "insert_merge_touching_or_overlapping"}
    /\ result = "TryFromBounds"
    /\ \E i \in 1..Len(prev) : SharePoint(prev[i].k, arg)

(***************************************************************************)
(* C5: after a successful cut(q) no remaining entry shares a point with q, *)
(* and the covered points are the points covered before minus those of q.  *)
(***************************************************************************)
C5_CutCoverage ==
    (op = "cut" /\ result = "Ok") =>
        /\ \A i \in 1..Len(inner) : ~SharePoint(inner[i].k, arg)
        /\ Covered(inner) = Covered(prev) \ PointsOf(arg)

\* a cut through two straddlers and an entry between them
C5_Witness ==
    /\ op = "cut"
    /\ result = "Ok"
    /\ Len(prev) = 3
    /\ Len(out) = 3
    /\ Len(inner) = 2

(***************************************************************************)
(* C6: a successful cut(q) yields, in ascending order, one item per entry  *)
(* e that overlapped q: the intersection of e's range with q (e's own      *)
(* range when q contains it) with e's value; with no overlapping entry it  *)
(* yields nothing and leaves the map unchanged.                            *)
(***************************************************************************)
C6_CutYields ==
    (op = "cut" /\ result = "Ok") =>
        LET hit == Overlappers(prev, arg)
        IN  /\ Len(out) = Len(hit)
            /\ \A i \in 1..Len(hit) :
                /\ out[i].v = hit[i].v
                /\ out[i].k = Pair(MaxStart(hit[i].k.s, arg.s), MinEnd(hit[i].k.e, arg.e))
                /\ PointsOf(out[i].k) = PointsOf(hit[i].k) \cap PointsOf(arg)
                /\ PointsOf(hit[i].k) \subseteq PointsOf(arg) => out[i].k = hit[i].k
            /\ hit = <<>> => inner = prev

\* a cut that yields a slice of a straddler and a whole entry
C6_Witness ==
    /\ op = "cut"
    /\ result = "Ok"
    /\ Len(out) >= 2
    /\ \E i \in 1..Len(out) : out[i] \notin EntrySet(prev)
    /\ \E i \in 1..Len(out) : out[i] \in EntrySet(prev)

(***************************************************************************)
(* C7: after a successful insert_overwrite(r, v), get_at_point(p) is v at  *)
(* every point p of r; at every point outside r the coverage and the       *)
(* value get_at_point(p) returns are what they were before the call.       *)
(***************************************************************************)
C7_InsertOverwrite ==
    (op = "insert_overwrite" /\ result = "Ok") =>
        /\ \A p \in PointsOf(arg) : get_at_point(inner, p) = Some(val)
        /\ \A p \in NUMBERS_DOMAIN \ PointsOf(arg) :
            /\ get_at_point(inner, p) = get_at_point(prev, p)
            /\ p \in Covered(inner) <=> p \in Covered(prev)

\* an overwrite inside one entry that carried the other value
C7_Witness ==
    /\ op = "insert_overwrite"
    /\ result = "Ok"
    /\ Len(prev) = 1
    /\ prev[1].v # val
    /\ Len(inner) = 3

(***************************************************************************)
(* C8: insert_overwrite(range, value) has the result and the final map of  *)
(* cut(range) followed by insert_strict(range, value), which then does not *)
(* fail with Overlap; when a leftover piece of the cut is unrepresentable  *)
(* it returns the TryFromBounds error and the map is untouched.            *)
(***************************************************************************)
C8_OverwriteIsCutThenInsertStrict ==
    op = "insert_overwrite" =>
        LET c == cut(prev, arg)
            i == insert_strict(c.inner, arg, val)
        IN  IF c.result = "Ok"
            THEN i.result = "Ok" /\ result = "Ok" /\ inner = i.inner
            ELSE c.result = "TryFromBounds" /\ result = "TryFromBounds" /\ inner = prev

\* an overwrite that cut stored entries, and its cut alone changes the map
C8_Witness ==
    /\ op = "insert_overwrite"
    /\ result = "Ok"
    /\ Len(prev) >= 2
    /\ cut(prev, arg).inner # prev
    /\ Len(cut(prev, arg).out) >= 2

(***************************************************************************)
(* C9: overlapping(q) returns exactly the stored entries whose range       *)
(* shares a point with q, in ascending order of start; overlaps(q) is true *)
(* iff there is such an entry.                                             *)
(***************************************************************************)
C9_Overlapping ==
    /\ op = "overlapping" =>
        /\ out = Overlappers(prev, arg)
        /\ \A i \in 1..Len(out) : overlaps(out[i].k, arg)
        /\ \A i \in 1..Len(prev) : overlaps(prev[i].k, arg) => prev[i] \in EntrySet(out)
        /\ \A i, j \in 1..Len(out) :
            i < j => BoundOrdStart(out[i].k.s) < BoundOrdStart(out[j].k.s)
    /\ op = "overlaps" =>
        out[1] = (\E i \in 1..Len(prev) : SharePoint(prev[i].k, arg))

\* a query that returns two entries of a map and leaves others out
C9_Witness ==
    /\ op = "overlapping"
    /\ Len(out) = 2
    /\ Len(prev) >= 4
    /\ out[1] # prev[1]

(***************************************************************************)
(* C10: get_entry_at_point(p) returns Ok(e) iff some stored entry contains *)
(* p, and e is that entry; when it returns Err(gap), the gap is a valid    *)
(* range, shares no point with any stored entry, and contains p.           *)
(***************************************************************************)
C10_GetEntryAtPoint ==
    op = "get_entry_at_point" =>
        LET p == arg.s.p
        IN  /\ result = "Ok" <=> \E i \in 1..Len(prev) : Contains(prev[i].k, p)
            /\ result = "Ok" => out[1] \in EntrySet(prev) /\ Contains(out[1].k, p)
            /\ result # "Ok" =>
                /\ result = "Err"
                /\ is_valid_range(out[1])
                /\ \A i \in 1..Len(prev) : ~SharePoint(out[1], prev[i].k)
                /\ Contains(out[1], p)

\* a miss between two stored entries, the lower one ending inclusively
C10_Witness ==
    /\ op = "get_entry_at_point"
    /\ result = "Err"
    /\ out[1].s.t = "Excluded"
    /\ out[1].e.t # "Unbounded"

\* every point of r lies below p / above p
Below(r, p) == \A x \in PointsOf(r) : x < p

Above(r, p) == \A x \in PointsOf(r) : x > p

(***************************************************************************)
(* C11: on a miss the gap of get_entry_at_point(p) is maximal: it starts   *)
(* at the flipped end of the greatest entry below p and ends at the        *)
(* flipped start of the least entry above p, Unbounded where none exists.  *)
(***************************************************************************)
C11_MaximalGap ==
    (op = "get_entry_at_point" /\ result = "Err") =>
        LET p == arg.s.p
            below == {e \in EntrySet(prev) : Below(e.k, p)}
            above == {e \in EntrySet(prev) : Above(e.k, p)}
            greatest == CHOOSE e \in below :
                            \A f \in below : f = e \/ Below(f.k, Min(PointsOf(e.k)))
            least == CHOOSE e \in above :
                         \A f \in above : f = e \/ Above(f.k, Min(PointsOf(e.k)))
        IN  /\ out[1].s = IF below = {} THEN Unbounded ELSE flip_bound(greatest.k.e)
            /\ out[1].e = IF above = {} THEN Unbounded ELSE flip_bound(least.k.s)

\* a miss with two entries below the point and one above it
C11_Witness ==
    /\ op = "get_entry_at_point"
    /\ result = "Err"
    /\ Cardinality({e \in EntrySet(prev) : Below(e.k, arg.s.p)}) >= 2
    /\ \E e \in EntrySet(prev) : Above(e.k, arg.s.p)

(***************************************************************************)
(* C12: contains_range(q) is true iff gaps(q) yields no element iff every  *)
(* point of q is covered by some stored entry.                             *)
(***************************************************************************)
C12_ContainsRange ==
    /\ op = "contains_range" =>
        /\ out[1] <=> gaps(prev, arg) = <<>>
        /\ out[1] <=> PointsOf(arg) \subseteq Covered(prev)
    /\ op = "gaps" =>
        (out = <<>> <=> PointsOf(arg) \subseteq Covered(prev))

\* a range that is contained although it runs over several entries
C12_Witness ==
    /\ op = "contains_range"
    /\ out[1]
    /\ Cardinality({e \in EntrySet(prev) : SharePoint(e.k, arg)}) >= 2
    /\ Covered(prev) # NUMBERS_DOMAIN

(***************************************************************************)
(* C13: gaps(outer_range) yields, in ascending order, exactly the maximal  *)
(* sub-ranges of outer_range with no covered point: each is valid, inside  *)
(* outer_range and free of covered points; together they hold every        *)
(* uncovered point of outer_range; and between any two consecutive ones    *)
(* lies a covered point, so that none can be extended.                     *)
(***************************************************************************)
C13_Gaps ==
    op = "gaps" =>
        /\ \A i \in 1..Len(out) :
            /\ is_valid_range(out[i])
            /\ PointsOf(out[i]) # {}
            /\ PointsOf(out[i]) \subseteq PointsOf(arg) \ Covered(prev)
        /\ \A x \in PointsOf(arg) \ Covered(prev) :
            \E i \in 1..Len(out) : Contains(out[i], x)
        /\ \A i \in 1..(Len(out) - 1) :
            \E c \in Covered(prev) :
                /\ \A x \in PointsOf(out[i]) : x < c
                /\ \A x \in PointsOf(out[i + 1]) : c < x

\* several gaps, one of them a single point between two entries and the
\* last one running to the unbounded end of the outer range
C13_Witness ==
    /\ op = "gaps"
    /\ Len(out) >= 2
    /\ \E i \in 1..Len(out) :
        out[i].s.t = "Included" /\ out[i].e.t = "Included" /\ out[i].s.p = out[i].e.p
    /\ arg.e.t = "Unbounded"
    /\ out[Len(out)].e.t = "Unbounded"

\* r's end abuts s's start: the same point, inclusive on one side only
Touches(r, s) ==
    /\ r.e.p = s.s.p
    /\ \/ r.e.t = "Included" /\ s.s.t = "Excluded"
       \/ r.e.t = "Excluded" /\ s.s.t = "Included"

\* the stored entries of m that touch the start / the end of range
TouchingStart(m, range) == {e \in EntrySet(m) : Touches(e.k, range)}

TouchingEnd(m, range) == {e \in EntrySet(m) : Touches(range, e.k)}

\* the range from the start of the entries in S, if any, else of range, to
\* the end of the entries in T, if any, else of range
Merged(S, T, range) ==
    Pair(IF S = {} THEN range.s ELSE (CHOOSE e \in S : TRUE).k.s,
         IF T = {} THEN range.e ELSE (CHOOSE e \in T : TRUE).k.e)

\* what a merging insertion does once its neighbours S and T are known:
\* it fails if the merged range is not representable, and else replaces
\* the entries of Gone by the merged range with the new value
MergeContract(S, T, Gone) ==
    LET merged == Merged(S, T, arg)
    IN  /\ result = IF Representable(K, merged.s, merged.e) THEN "Ok" ELSE "TryFromBounds"
        /\ result = "Ok" =>
            /\ out = <<merged>>
            /\ EntrySet(inner) = (EntrySet(prev) \ Gone) \cup {Entry(merged, val)}
            /\ Len(inner) = Cardinality(EntrySet(inner))

(***************************************************************************)
(* C14: insert_merge_touching(range, value) returns Overlap iff a stored   *)
(* entry overlaps range, before any representability check; otherwise the  *)
(* merged range runs from the start of the entry touching range's start    *)
(* (else range's start) to the end of the entry touching range's end (else *)
(* range's end), and on success the touching neighbours are gone, the      *)
(* merged range is stored with the new value and returned, and every other *)
(* entry is as before.                                                     *)
(***************************************************************************)
C14_InsertMergeTouching ==
    op = "insert_merge_touching" =>
        LET S == TouchingStart(prev, arg)
            T == TouchingEnd(prev, arg)
        IN  /\ result = "Overlap" <=> Overlappers(prev, arg) # <<>>
            /\ result = "Overlap" => inner = prev
            /\ Overlappers(prev, arg) = <<>> => MergeContract(S, T, S \cup T)

\* a merge with a neighbour on each side, next to an entry that stays
C14_Witness ==
    /\ op = "insert_merge_touching"
    /\ result = "Ok"
    /\ TouchingStart(prev, arg) # {}
    /\ TouchingEnd(prev, arg) # {}
    /\ Len(prev) >= 3

(***************************************************************************)
(* C15: insert_merge_touching_if_values_equal(range, value) is             *)
(* insert_merge_touching except that a touching neighbour takes part, on   *)
(* its side alone, only when its stored value equals value; a touching     *)
(* neighbour with another value stays as it is and gives no endpoint.      *)
(***************************************************************************)
C15_InsertMergeTouchingIfValuesEqual ==
    op = "insert_merge_touching_if_values_equal" =>
        LET S == {e \in TouchingStart(prev, arg) : e.v = val}
            T == {e \in TouchingEnd(prev, arg) : e.v = val}
        IN  /\ result = "Overlap" <=> Overlappers(prev, arg) # <<>>
            /\ result = "Overlap" => inner = prev
            /\ Overlappers(prev, arg) = <<>> => MergeContract(S, T, S \cup T)

\* a touching neighbour of equal value on one side is merged while the one
\* on the other side, of another value, stays
C15_Witness ==
    /\ op = "insert_merge_touching_if_values_equal"
    /\ result = "Ok"
    /\ \E e \in TouchingStart(prev, arg) : e.v # val /\ e \in EntrySet(inner)
    /\ \E e \in TouchingEnd(prev, arg) : e.v = val

Max(S) == CHOOSE x \in S : \A y \in S : y <= x

\* the stored entries of m that contain the first / the last point of range
ContainingStart(m, range) == {e \in EntrySet(m) : Contains(e.k, Min(PointsOf(range)))}

ContainingEnd(m, range) == {e \in EntrySet(m) : Contains(e.k, Max(PointsOf(range)))}

(***************************************************************************)
(* C16: insert_merge_overlapping(range, value) never returns Overlap; on   *)
(* success the merged range runs from the lesser of range's start and the  *)
(* start of the entry containing it to the greater of range's end and the  *)
(* end of the entry containing it, every entry that overlapped range is    *)
(* gone, entries that only touch range are as before, and the merged       *)
(* range carries the new value.                                            *)
(***************************************************************************)
C16_InsertMergeOverlapping ==
    op = "insert_merge_overlapping" =>
        LET S == ContainingStart(prev, arg)
            T == ContainingEnd(prev, arg)
            merged == Merged(S, T, arg)
        IN  /\ result # "Overlap"
            /\ MergeContract(S, T, EntrySet(Overlappers(prev, arg)))
            /\ \A e \in S : BoundOrdStart(merged.s) <= BoundOrdStart(arg.s)
                            /\ BoundOrdStart(merged.s) <= BoundOrdStart(e.k.s)
            /\ \A e \in T : BoundOrdEnd(merged.e) >= BoundOrdEnd(arg.e)
                            /\ BoundOrdEnd(merged.e) >= BoundOrdEnd(e.k.e)
            /\ result = "Ok" =>
                TouchingStart(prev, arg) \cup TouchingEnd(prev, arg) \subseteq EntrySet(inner)

\* a merge over two entries, each sticking out on its side, with a touching
\* entry left alone
C16_Witness ==
    /\ op = "insert_merge_overlapping"
    /\ result = "Ok"
    /\ ContainingStart(prev, arg) # {}
    /\ ContainingEnd(prev, arg) # {}
    /\ ContainingStart(prev, arg) # ContainingEnd(prev, arg)
    /\ out[1] # arg
    /\ TouchingStart(prev, arg) \cup TouchingEnd(prev, arg) # {}

(***************************************************************************)
(* C17: insert_merge_touching_or_overlapping(range, value) takes, on each  *)
(* side, the entry touching range if there is one, else the entry          *)
(* overlapping that endpoint of range, else range itself; on success every *)
(* entry that overlapped range and both touching neighbours are gone and   *)
(* the one merged range, covering range and every removed entry, is stored *)
(* with the new value.                                                     *)
(***************************************************************************)
C17_InsertMergeTouchingOrOverlapping ==
    op = "insert_merge_touching_or_overlapping" =>
        LET S == IF TouchingStart(prev, arg) # {} THEN TouchingStart(prev, arg)
                 ELSE ContainingStart(prev, arg)
            T == IF TouchingEnd(prev, arg) # {} THEN TouchingEnd(prev, arg)
                 ELSE ContainingEnd(prev, arg)
            Gone == EntrySet(Overlappers(prev, arg))
                    \cup TouchingStart(prev, arg) \cup TouchingEnd(prev, arg)
        IN  /\ MergeContract(S, T, Gone)
            /\ result = "Ok" =>
                /\ PointsOf(arg) \subseteq PointsOf(out[1])
                /\ \A e \in Gone : PointsOf(e.k) \subseteq PointsOf(out[1])

(***************************************************************************)
(* C18: remove_overlapping(range) removes and yields, in ascending order,  *)
(* exactly the entries whose range overlaps range, whole; every other      *)
(* entry stays as it is, and when nothing overlaps the map is unchanged.   *)
(***************************************************************************)
C18_RemoveOverlapping ==
    op = "remove_overlapping" =>
        /\ result = "Ok"
        /\ out = Overlappers(prev, arg)
        /\ inner = SelectSeq(prev, LAMBDA e : ~SharePoint(e.k, arg))
        /\ Overlappers(prev, arg) = <<>> => inner = prev

\* two entries removed from between two that stay, one of which touches
C18_Witness ==
    /\ op = "remove_overlapping"
    /\ Len(out) >= 2
    /\ Len(inner) >= 2
    /\ TouchingStart(prev, arg) \cup TouchingEnd(prev, arg) # {}

(***************************************************************************)
(* C19 (I2, validity): after every public operation every stored range is  *)
(* valid: its start is not after its end, and a range that starts and ends *)
(* at the same point has both endpoints inclusive; so the pieces that cut  *)
(* and insert_overwrite put back are never empty or inverted.              *)
(***************************************************************************)
C19_Validity ==
    \A i \in 1..Len(inner) :
        LET r == inner[i].k
        IN  /\ (r.s.t # "Unbounded" /\ r.e.t # "Unbounded") =>
                \/ r.s.p < r.e.p
                \/ r.s.p = r.e.p /\ r.s.t = "Included" /\ r.e.t = "Included"
            /\ PointsOf(r) # {}

\* a cut or an overwrite has put back a leftover that is a single point
C19_Witness ==
    /\ op \in {"cut", "insert_overwrite"}
    /\ result = "Ok"
    /\ \E e \in EntrySet(inner) \ EntrySet(prev) :
        /\ e.k # arg
        /\ e.k.s.t = "Included" /\ e.k.e.t = "Included" /\ e.k.s.p = e.k.e.p

\* the operations that take one range
RangeOps ==
    MergeOps \cup {"insert_strict", "insert_overwrite", "cut", "remove_overlapping",
                   "overlapping", "overlaps", "gaps", "contains_range"}

\* r is inverted, or starts and ends at one point without both being inclusive
Invalid(r) ==
    /\ r.s.t # "Unbounded"
    /\ r.e.t # "Unbounded"
    /\ \/ r.s.p > r.e.p
       \/ r.s.p = r.e.p /\ ~(r.s.t = "Included" /\ r.e.t = "Included")

\* a call of an operation that takes one range, with an invalid range,
\* panics and leaves the map as it was
C20_RangeOpsPanic ==
    (op \in RangeOps /\ Invalid(arg)) => (result = "Panic" /\ inner = prev)

\* a call of from_slice_strict with an invalid range in its slice panics
C20_FromSliceStrictPanics ==
    (op = "from_slice_strict" /\ \E i \in 1..Len(arg) : Invalid(arg[i].k)) =>
        result = "Panic"

(***************************************************************************)
(* C20: every public operation that accepts a range (overlaps,             *)
(* overlapping, remove_overlapping, cut, gaps, contains_range,             *)
(* insert_strict, the four insert_merge_*, insert_overwrite,               *)
(* from_slice_strict) panics on an invalid range before doing anything     *)
(* else, the map not mutated; an invalid range is never answered with      *)
(* Overlap or TryFromBounds.                                               *)
(***************************************************************************)
C20_InvalidRangePanics == C20_RangeOpsPanic /\ C20_FromSliceStrictPanics

(***************************************************************************)
(* C21: insert_overwrite is idempotent: for any reachable map and any      *)
(* valid range r of the key type and value v, a second                     *)
(* insert_overwrite(r, v) right after the first has the same result and    *)
(* leaves the map the first call left.                                     *)
(***************************************************************************)
C21_InsertOverwriteIdempotent ==
    op = "insert_overwrite" =>
        LET again == insert_overwrite(inner, arg, val)
        IN  /\ again.result = result
            /\ again.inner = inner

\* the first overwrite split an entry in three, so the second one meets
\* the entry the first one stored between two leftovers
C21_Witness ==
    /\ op = "insert_overwrite"
    /\ result = "Ok"
    /\ Len(prev) = 1
    /\ Len(inner) = 3
    /\ inner[2] = Entry(arg, val)
    /\ insert_overwrite(inner, arg, val).inner = inner

(***************************************************************************)
(* Iteration: iter, into_iter and Serialize walk the container in slot     *)
(* order; first_entry and last_entry are its first and last slot.          *)
(***************************************************************************)
iter(m) == m

first_entry(m) == IF m = <<>> THEN None ELSE Some(m[1])

last_entry(m) == IF m = <<>> THEN None ELSE Some(m[Len(m)])

\* a starts strictly below b in the endpoint order
StartsBefore(a, b) ==
    \/ a.s.t = "Unbounded" /\ b.s.t # "Unbounded"
    \/ /\ a.s.t # "Unbounded"
       /\ b.s.t # "Unbounded"
       /\ \/ a.s.p < b.s.p
          \/ a.s.p = b.s.p /\ a.s.t = "Included" /\ b.s.t = "Excluded"

(***************************************************************************)
(* C22 (I3, sorted): after every public operation, iteration over the map  *)
(* yields the entries in strictly ascending order of start endpoint, and   *)
(* first_entry / last_entry are the entries with the least / the greatest  *)
(* start endpoint.                                                         *)
(***************************************************************************)
C22_Sorted ==
    /\ \A i, j \in 1..Len(iter(inner)) :
        i < j => StartsBefore(iter(inner)[i].k, iter(inner)[j].k)
    /\ inner # <<>> =>
        /\ \A e \in EntrySet(inner) \ {first_entry(inner).val} :
            StartsBefore(first_entry(inner).val.k, e.k)
        /\ \A e \in EntrySet(inner) \ {last_entry(inner).val} :
            StartsBefore(e.k, last_entry(inner).val.k)
    /\ inner = <<>> => first_entry(inner) = None /\ last_entry(inner) = None

\* an insertion has put its entry between two stored ones
C22_Witness ==
    /\ op \in MergeOps \cup {"insert_strict", "insert_overwrite"}
    /\ result = "Ok"
    /\ Len(prev) >= 2
    /\ Len(inner) = Len(prev) + 1
    /\ \E i \in 2..(Len(inner) - 1) : inner[i].k = arg /\ inner[i - 1] = prev[i - 1]
                                      /\ inner[i + 1] = prev[i]

(***************************************************************************)
(* Serialisation.  Serialize emits one map entry (range, value) per stored *)
(* entry in the order of iter(); the visitor of Deserialize starts from    *)
(* new() and puts every entry it reads in with insert_strict, an overlap   *)
(* ending it with the custom error.                                        *)
(***************************************************************************)
serialize(m) == [i \in 1..Len(iter(m)) |-> <<iter(m)[i].k, iter(m)[i].v>>]

\* the visitor with insert_merge_touching in the place of insert_strict
visit_map_merge_touching(access) ==
    LET map[i \in 0..Len(access)] ==
            LET Insert(before) ==
                    IF before.result # "Ok" THEN before
                    ELSE insert_merge_touching(before.inner, access[i][1], access[i][2])
            IN  IF i = 0 THEN Ret("Ok", <<>>, <<>>) ELSE Insert(map[i - 1])
        Return(r) ==
            IF r.result = "Ok" THEN Ret("Ok", r.inner, <<>>)
            ELSE Ret("RangeBounds overlap", <<>>, <<>>)
    IN  Return(map[Len(access)])

visit_map(access) ==
    LET map[i \in 0..Len(access)] ==
            LET Insert(before) ==
                    IF before.result # "Ok" THEN before
                    ELSE insert_strict(before.inner, access[i][1], access[i][2])
            IN  IF i = 0 THEN Ret("Ok", <<>>, <<>>) ELSE Insert(map[i - 1])
        Return(r) ==
            IF r.result = "Ok" THEN r
            ELSE IF r.result = "Overlap" THEN Ret("RangeBounds overlap", <<>>, <<>>)
            ELSE Ret(r.result, <<>>, <<>>)
    IN  Return(map[Len(access)])

(***************************************************************************)
(* C23: serialising a reachable map as its ordered sequence of             *)
(* (range, value) entries and rebuilding a map from that sequence by       *)
(* repeated insert_strict succeeds and yields a map equal to the original. *)
(***************************************************************************)
C23_RoundTrip ==
    visit_map(serialize(inner)) = Ret("Ok", inner, <<>>)

\* a map of three entries, two of them touching and one apart, that is
\* rebuilt from its serialised form
C23_Witness ==
    /\ Len(inner) = 3
    /\ Touches(inner[1].k, inner[2].k)
    /\ ~Touches(inner[2].k, inner[3].k)
    /\ Len(serialize(inner)) = 3
    /\ visit_map(serialize(inner)).inner = inner

(***************************************************************************)
(* The endpoint order in the words of its definition: an endpoint is a     *)
(* bound with the side it is on.                                           *)
(***************************************************************************)
StartOf(r) == [side |-> "Start", b |-> r.s]

EndOf(r) == [side |-> "End", b |-> r.e]

Endpoints == {[side |-> sd, b |-> b] : sd \in {"Start", "End"}, b \in Bounds}

\* where an endpoint sits at its point: an excluded end just before it, an
\* included one on it, an excluded start just after it
Rank(x) ==
    IF x.b.t = "Included" THEN 1 ELSE IF x.side = "End" THEN 0 ELSE 2

Precedes(x, y) ==
    \/ x.b.t = "Unbounded" /\ x.side = "Start" /\ ~(y.b.t = "Unbounded" /\ y.side = "Start")
    \/ y.b.t = "Unbounded" /\ y.side = "End" /\ ~(x.b.t = "Unbounded" /\ x.side = "End")
    \/ /\ x.b.t # "Unbounded"
       /\ y.b.t # "Unbounded"
       /\ \/ x.b.p < y.b.p
          \/ x.b.p = y.b.p /\ Rank(x) < Rank(y)

Ordering(x, y) ==
    IF Precedes(x, y) THEN "Less" ELSE IF Precedes(y, x) THEN "Greater" ELSE "Equal"

\* DiscreteBoundOrd of an endpoint
BoundOrd(x) == IF x.side = "Start" THEN BoundOrdStart(x.b) ELSE BoundOrdEnd(x.b)

(***************************************************************************)
(* C24: the endpoint order is a total order in which Unbounded-Start is    *)
(* strictly below and Unbounded-End strictly above every other endpoint,   *)
(* endpoints at different points compare as their points do, and at one    *)
(* point p: Excluded-End(p) < Included-Start(p) = Included-End(p) <        *)
(* Excluded-Start(p).                                                      *)
(***************************************************************************)
C24_EndpointOrder ==
    op = "cmp" =>
        /\ out.ss = Ordering(StartOf(arg[1]), StartOf(arg[2]))
        /\ out.se = Ordering(StartOf(arg[1]), EndOf(arg[2]))
        /\ out.es = Ordering(EndOf(arg[1]), StartOf(arg[2]))
        /\ out.ee = Ordering(EndOf(arg[1]), EndOf(arg[2]))
        /\ \A x \in {StartOf(arg[1]), EndOf(arg[1])}, y \in {StartOf(arg[2]), EndOf(arg[2])} :
            /\ Cmp(BoundOrd(x), BoundOrd(y)) = "Less" <=> Cmp(BoundOrd(y), BoundOrd(x)) = "Greater"
            /\ Cmp(BoundOrd(x), BoundOrd(y)) = "Equal" <=> Cmp(BoundOrd(y), BoundOrd(x)) = "Equal"
            /\ \A z \in Endpoints :
                (Cmp(BoundOrd(x), BoundOrd(y)) # "Greater" /\ Cmp(BoundOrd(y), BoundOrd(z)) # "Greater")
                    => Cmp(BoundOrd(x), BoundOrd(z)) # "Greater"

\* an excluded start compared with an excluded end at the same point, and
\* an unbounded start with an unbounded end
C24_Witness ==
    /\ op = "cmp"
    /\ arg[1].s.t = "Excluded"
    /\ arg[2].e.t = "Excluded"
    /\ arg[1].s.p = arg[2].e.p
    /\ out.se = "Greater"
    /\ arg[1].e.t = "Unbounded"
    /\ arg[2].s.t = "Unbounded"
    /\ out.es = "Greater"

\* r ends and s starts at one point
MeetAt(r, s) == r.e.t # "Unbounded" /\ s.s.t # "Unbounded" /\ r.e.p = s.s.p

(***************************************************************************)
(* C25: for every pair of valid ranges a and b, overlaps(a, b) is true if  *)
(* and only if some point of NUMBERS_DOMAIN is contained in both; two      *)
(* ranges that only meet at a shared boundary point overlap only when the  *)
(* end at that point and the start at that point are both inclusive.       *)
(***************************************************************************)
C25_Overlaps ==
    op = "utils::overlaps" =>
        /\ out <=> \E x \in NUMBERS_DOMAIN : Contains(arg[1], x) /\ Contains(arg[2], x)
        /\ MeetAt(arg[1], arg[2]) =>
            (out <=> arg[1].e.t = "Included" /\ arg[2].s.t = "Included")
        /\ MeetAt(arg[2], arg[1]) =>
            (out <=> arg[2].e.t = "Included" /\ arg[1].s.t = "Included")

\* two ranges that meet at a point inclusive on one side only, which do
\* not overlap
C25_Witness ==
    /\ op = "utils::overlaps"
    /\ MeetAt(arg[1], arg[2])
    /\ arg[1].e.t = "Included"
    /\ arg[2].s.t = "Excluded"
    /\ out = FALSE

\* tests::con: the piece is there and contains the point
con(x, point) == x.some /\ Contains(x.val, point)

\* no point up to x is in the cut: x lies below it
OnLeft(cut_r, x) == \A y \in NUMBERS_DOMAIN : y <= x => ~Contains(cut_r, y)

\* the partition of tests::cut_range_tests at the point x
PartitionAt(base, cut_r, pieces, x) ==
    LET b == con(pieces.before_cut, x)
        i == con(pieces.inside_cut, x)
        a == con(pieces.after_cut, x)
    IN  CASE ~Contains(base, x) -> ~b /\ ~i /\ ~a
          [] Contains(base, x) /\ Contains(cut_r, x) -> ~b /\ i /\ ~a
          [] OTHER -> IF OnLeft(cut_r, x) THEN b /\ ~i /\ ~a ELSE ~b /\ ~i /\ a

\* the partition for a base and a cut that overlap
C26_PartitionWhenOverlapping ==
    (op = "cut_range" /\ SharePoint(arg[1], arg[2])) =>
        \A x \in NUMBERS_DOMAIN : PartitionAt(arg[1], arg[2], out, x)

(***************************************************************************)
(* C26: for every pair of valid ranges base and cut, overlapping or not,   *)
(* the three pieces of cut_range(base, cut) partition base: a point        *)
(* outside base is in no piece; a point in both base and cut is in         *)
(* `inside` only; a point in base but not in cut is in `before` only if it *)
(* lies below the cut and in `after` only if it lies above it.             *)
(***************************************************************************)
C26_CutRangePartition ==
    op = "cut_range" =>
        \A x \in NUMBERS_DOMAIN : PartitionAt(arg[1], arg[2], out, x)

(***************************************************************************)
(* C27: a touching comparator reports Equal for a stored range exactly     *)
(* when the stored range's facing endpoint and the query endpoint are at   *)
(* the same point with opposite inclusivity; at the same point with both   *)
(* inclusive or both exclusive the result is Greater for touching_start    *)
(* and Less for touching_end; so no stored range is classified both as     *)
(* touching and as overlapping the same query.                             *)
(***************************************************************************)
C27_TouchingComps ==
    op = "search_comps" =>
        LET q == arg[1]
            r == arg[2]
        IN  /\ out.touching_start = "Equal" <=> Touches(r, q)
            /\ out.touching_end = "Equal" <=> Touches(q, r)
            /\ (q.s.t # "Unbounded" /\ r.e.t = q.s.t /\ r.e.p = q.s.p) =>
                out.touching_start = "Greater"
            /\ (q.e.t # "Unbounded" /\ r.s.t = q.e.t /\ r.s.p = q.e.p) =>
                out.touching_end = "Less"
            /\ out.touching_start = "Equal" => out.overlapping_start # "Equal"
            /\ out.touching_end = "Equal" => out.overlapping_end # "Equal"
            /\ (is_valid_range(q) /\ "Equal" \in {out.touching_start, out.touching_end}) =>
                ~SharePoint(q, r)

\* a stored range that ends inclusive at the point the query starts
\* inclusive at: an overlap, answered Greater by touching_start
C27_Witness ==
    /\ op = "search_comps"
    /\ arg[1].s.t = "Included"
    /\ arg[2].e.t = "Included"
    /\ arg[1].s.p = arg[2].e.p
    /\ out.touching_start = "Greater"
    /\ out.overlapping_start = "Equal"

\* what the comparator c answers for the stored ranges of m, in slot order
Answers(c, m) == [i \in 1..Len(m) |-> Compare(c, m[i].k)]

\* the answers an ordered search can rely on: Greater up to the match, at
\* most one Equal, Less from there on
ValidSearchKey(a) ==
    \A i, j \in 1..Len(a) :
        i < j => /\ a[i] = "Less" => a[j] = "Less"
                 /\ a[i] = "Equal" => a[j] = "Less"

\* the call made its touching comparators: the touching insertions make
\* them once the range is known to overlap nothing
TouchingCompsPassed ==
    \/ op = "insert_merge_touching_or_overlapping"
    \/ /\ op \in {"insert_merge_touching", "insert_merge_touching_if_values_equal"}
       /\ result # "Overlap"

(***************************************************************************)
(* C28: each of the four search comparators (overlapping_start,            *)
(* overlapping_end, touching_start, touching_end) is a valid key for an    *)
(* ordered search in every reachable map and for every query endpoint the  *)
(* public operations pass to it: over the stored entries in ascending      *)
(* order its answers never change direction and at most one entry answers  *)
(* Equal, also when the map holds a single-point entry [p,p] next to an    *)
(* entry that touches a query with an endpoint Included(p), as             *)
(* insert_merge_touching_or_overlapping can pass.                          *)
(***************************************************************************)
C28_ValidSearchKeys ==
    op \in RangeOps =>
        /\ ValidSearchKey(Answers(Comp("overlapping_start_comp", arg.s), prev))
        /\ ValidSearchKey(Answers(Comp("overlapping_end_comp", arg.e), prev))
        /\ TouchingCompsPassed =>
            /\ ValidSearchKey(Answers(Comp("touching_start_comp", arg.s), prev))
            /\ ValidSearchKey(Answers(Comp("touching_end_comp", arg.e), prev))

\* the same for the overlapping comparators and for the touching
\* comparators of the two insertions that refuse an overlapping range
C28_ValidWithoutOverlap ==
    op \in RangeOps \ {"insert_merge_touching_or_overlapping"} =>
        /\ ValidSearchKey(Answers(Comp("overlapping_start_comp", arg.s), prev))
        /\ ValidSearchKey(Answers(Comp("overlapping_end_comp", arg.e), prev))
        /\ TouchingCompsPassed =>
            /\ ValidSearchKey(Answers(Comp("touching_start_comp", arg.s), prev))
            /\ ValidSearchKey(Answers(Comp("touching_end_comp", arg.e), prev))

\* the merge has kept the coverage: the covered points are the old ones and
\* those of the range, what was removed lies inside the returned range, and
\* the returned range is stored with the value
KeepsCoverage ==
    /\ Covered(inner) = Covered(prev) \cup PointsOf(arg)
    /\ \A e \in EntrySet(prev) \ EntrySet(inner) : PointsOf(e.k) \subseteq PointsOf(out[1])
    /\ Entry(out[1], val) \in EntrySet(inner)

\* the three merging insertions other than insert_merge_touching_or_overlapping
C29_OtherMergesKeepCoverage ==
    (op \in MergeOps \ {"insert_merge_touching_or_overlapping"} /\ result = "Ok") =>
        KeepsCoverage

(***************************************************************************)
(* C29: a successful merging insertion never loses coverage: after         *)
(* insert_merge_touching, insert_merge_touching_if_values_equal,           *)
(* insert_merge_overlapping or insert_merge_touching_or_overlapping        *)
(* succeeds with (range, value), the covered points are the previously     *)
(* covered ones united with the points of range, every entry that was      *)
(* removed lies entirely inside the returned merged range, and the         *)
(* returned range is the stored entry that carries value.                  *)
(***************************************************************************)
C29_MergeKeepsCoverage ==
    (op \in MergeOps /\ result = "Ok") => KeepsCoverage

(***************************************************************************)
(* C30: a successful cut(q) changes nothing outside q: for every point p   *)
(* not in q, get_at_point(p) returns after the cut what it returned        *)
(* before; the leftover before and after pieces of a split entry carry the *)
(* split entry's value; and an entry not overlapping q keeps its exact     *)
(* range and value.                                                        *)
(***************************************************************************)
C30_CutFrame ==
    (op = "cut" /\ result = "Ok") =>
        /\ \A p \in NUMBERS_DOMAIN \ PointsOf(arg) :
            get_at_point(inner, p) = get_at_point(prev, p)
        /\ \A e \in EntrySet(prev) : ~SharePoint(e.k, arg) => e \in EntrySet(inner)
        /\ \A e \in EntrySet(inner) \ EntrySet(prev) :
            \E f \in EntrySet(prev) \ EntrySet(inner) :
                /\ SharePoint(f.k, arg)
                /\ PointsOf(e.k) \subseteq PointsOf(f.k) \ PointsOf(arg)
                /\ e.v = f.v
                /\ e.k.s = f.k.s \/ e.k.e = f.k.e

\* a cut through two straddlers of different values, each leaving a piece,
\* next to an entry the cut does not reach
C30_Witness ==
    /\ op = "cut"
    /\ result = "Ok"
    /\ Len(prev) = 3
    /\ Len(inner) = 3
    /\ prev[1].v # prev[2].v
    /\ SharePoint(prev[1].k, arg)
    /\ SharePoint(prev[2].k, arg)
    /\ inner[3] = prev[3]
    /\ inner[1].k # prev[1].k
    /\ inner[2].k # prev[2].k

====
